---- MODULE Spec2Model ----
(***************************************************************************)
(* A model of src/src/App.tsx, the "Wake Up For Suhoor" React component.   *)
(*                                                                         *)
(* Time.  A JavaScript Date is modelled by its time value: an integer      *)
(* number of milliseconds counted from local midnight of day 0, or NaN for *)
(* an Invalid Date.  Local days are 24 hours long (no DST change falls in  *)
(* the modelled days).  Strings are sequences of one-character strings, so *)
(* that split(':') and Number() are computed as JavaScript computes them.  *)
(* NaN, undefined and the null Date are encoded as three integers far      *)
(* outside the range of the time values and differences that occur, since  *)
(* numbers and these values meet in the same comparisons.                  *)
(*                                                                         *)
(* Rendering.  React re-renders the component after every state update, so *)
(* every action below ends in a render at the instant the action ran; the  *)
(* variable now is that instant, and the operators of the "render" section *)
(* (fajrTime, the per-card flags, class names and badges) are what is on   *)
(* screen in the state.                                                    *)
(***************************************************************************)
EXTENDS Integers, Sequences, FiniteSets, TLC

VARIABLES
    now,          \* the wall clock, read by `new Date()`
    currentTime,  \* useState(new Date()), line 97
    bedTime,      \* useState<Date>, lines 98-102
    location,     \* useState<Location>, lines 104-107
    prayerTimes,  \* useState<PrayerTimes | null>, line 109
    loading,      \* useState(false), line 110
    error,        \* useState<{type, message} | null>, lines 111-114
    pending       \* fetchPrayerTimes calls awaiting their response, oldest first

vars == <<now, currentTime, bedTime, location, prayerTimes, loading, error, pending>>

-----------------------------------------------------------------------------
(* Bounds of the model *)

\* Days 0..MaxDay are modelled.
MaxDay == 1

\* At most MaxPending fetches are in flight at once.
MaxPending == 2

-----------------------------------------------------------------------------
(* JavaScript values *)

NaN == 0 - 2000000001
UNDEFINED == 0 - 2000000002
NULL == 0 - 2000000003

\* The null of useState<PrayerTimes | null> and a PrayerTimes object.  Of
\* the object only the fields the model reads are kept.
NULL_PRAYER_TIMES == [isNull |-> TRUE, Fajr |-> <<>>, timezone |-> ""]
PrayerTimes(fajr, tz) == [isNull |-> FALSE, Fajr |-> fajr, timezone |-> tz]

MILLISECONDS_IN_MINUTE == 60000

MsPerSecond == 1000 * 1
MsPerHour == 60 * 60000
MsPerDay == 24 * MsPerHour

\* ToNumber of a number, NaN, undefined or null.
ToNumber(v) == IF v = UNDEFINED THEN NaN ELSE IF v = NULL THEN 0 ELSE v

\* a - b and the comparisons, on the operands' ToNumber: NaN propagates
\* through the difference and makes every comparison false.
Sub(a, b) ==
    IF ToNumber(a) = NaN \/ ToNumber(b) = NaN THEN NaN ELSE ToNumber(a) - ToNumber(b)
Gt(a, b) == ToNumber(a) # NaN /\ ToNumber(b) # NaN /\ ToNumber(a) > ToNumber(b)
Ge(a, b) == ToNumber(a) # NaN /\ ToNumber(b) # NaN /\ ToNumber(a) >= ToNumber(b)
Lt(a, b) == ToNumber(a) # NaN /\ ToNumber(b) # NaN /\ ToNumber(a) < ToNumber(b)
Le(a, b) == ToNumber(a) # NaN /\ ToNumber(b) # NaN /\ ToNumber(a) <= ToNumber(b)
MathAbs(a) == IF a = NaN THEN NaN ELSE IF a < 0 THEN 0 - a ELSE a
\* Math.floor(a / d) for an integer a and d > 0 (\div rounds down).
MathFloorDiv(a, d) == IF a = NaN THEN NaN ELSE a \div d

\* A Date object, valid or not, is truthy; null is not.
Truthy(v) == v # NULL

\* A string is truthy unless it is empty.
TruthyString(s) == Len(s) > 0

-----------------------------------------------------------------------------
(* Strings *)

Digits == <<"0", "1", "2", "3", "4", "5", "6", "7", "8", "9">>

IsDigit(c) == \E i \in 1..10 : Digits[i] = c

DigitValue(c) == (CHOOSE i \in 1..10 : Digits[i] = c) - 1

\* String.prototype.split(sep) for a one-character separator.
RECURSIVE SplitFrom(_, _, _, _)
SplitFrom(s, sep, i, cur) ==
    IF i > Len(s) THEN <<cur>>
    ELSE IF s[i] = sep THEN <<cur>> \o SplitFrom(s, sep, i + 1, <<>>)
    ELSE SplitFrom(s, sep, i + 1, Append(cur, s[i]))

Split(s, sep) == SplitFrom(s, sep, 1, <<>>)

\* The white space Number() strips from both ends.
RECURSIVE TrimLeft(_)
TrimLeft(s) ==
    IF Len(s) > 0 /\ s[1] = " " THEN TrimLeft(Tail(s)) ELSE s

RECURSIVE TrimRight(_)
TrimRight(s) ==
    IF Len(s) > 0 /\ s[Len(s)] = " " THEN TrimRight(SubSeq(s, 1, Len(s) - 1)) ELSE s

RECURSIVE DecimalValue(_, _)
DecimalValue(s, acc) ==
    IF Len(s) = 0 THEN acc
    ELSE DecimalValue(Tail(s), acc * 10 + DigitValue(s[1]))

\* Number(s) on strings over digits, ':', ' ' and other (non-numeric)
\* characters: the empty string is 0, a run of digits its decimal value,
\* anything else NaN.
Number(s) ==
    LET t == TrimRight(TrimLeft(s))
    IN  IF Len(t) = 0 THEN 0
        ELSE IF \A i \in 1..Len(t) : IsDigit(t[i]) THEN DecimalValue(t, 0)
        ELSE NaN

\* const [hours, minutes] = str.split(':').map(Number)
ParseHoursMinutes(str) ==
    LET parts == Split(str, ":")
    IN  [hours   |-> Number(parts[1]),
         minutes |-> IF Len(parts) >= 2 THEN Number(parts[2]) ELSE UNDEFINED]

\* n.toString().padStart(2, '0') for 0 <= n <= 99
PadStart2(n) == <<Digits[(n \div 10) + 1], Digits[(n % 10) + 1]>>

\* "HH:MM", the 24-hour form of <input type="time"> values and of the
\* provider's timings.
HHMM(h, m) == PadStart2(h) \o <<":">> \o PadStart2(m)

-----------------------------------------------------------------------------
(* Dates *)

StartOfDay(t) == (t \div MsPerDay) * MsPerDay
DayOf(t) == t \div MsPerDay
TimeOfDay(t) == t % MsPerDay

\* date.setDate(date.getDate() + 1)
SetDateNextDay(t) == IF t = NaN THEN NaN ELSE t + MsPerDay

\* date.setHours(h, m, s, ms): local midnight of the date plus the given
\* time; an Invalid Date when an argument is not a number.
SetHours(t, h, m, s, ms) ==
    LET hh == ToNumber(h)
        mm == ToNumber(m)
    IN  IF t = NaN \/ hh = NaN \/ mm = NaN THEN NaN
        ELSE StartOfDay(t) + hh * MsPerHour + mm * MILLISECONDS_IN_MINUTE
                 + s * MsPerSecond + ms

-----------------------------------------------------------------------------
(* The environment: the clock, the user's inputs and the provider's answers *)

\* Instants at which an event may run: just after midnight, in the evening
\* and within the last second of each day.
ClockTimes == {250, 21 * MsPerHour + 30 * MILLISECONDS_IN_MINUTE, MsPerDay - 750}

ClockPoints == {d * MsPerDay + t : d \in 0..MaxDay, t \in ClockTimes}

\* Values of the bedtime <input type="time">: empty, or "HH:MM".
BedTimeValues == {<<>>, HHMM(3, 0), HHMM(22, 0), HHMM(23, 30)}

Chicago == [city |-> "Chicago", country |-> "USA"]
London == [city |-> "London", country |-> "UK"]

\* Locations the form submits.
Locations == {Chicago, London}

\* data.data.meta.timezone of the provider's answer for a location.
TimezoneOf(loc) == IF loc = Chicago THEN "America/Chicago" ELSE "Europe/London"

\* data.data.timings.Fajr of a provider's answer, in the "HH:MM" form.
WellFormedFajr ==
    {HHMM(1, 5), HHMM(2, 30), HHMM(4, 10), HHMM(4, 20), HHMM(5, 0),
     HHMM(5, 14), HHMM(5, 15), HHMM(5, 30)}

\* Answers whose hour or minute part is not a number: "--:--" and
\* "05:12 (CDT)".
MalformedFajr ==
    {<<"-", "-", ":", "-", "-">>,
     <<"0", "5", ":", "1", "2", " ", "(", "C", "D", "T", ")">>}

FajrTimings == WellFormedFajr \cup MalformedFajr

\* Removal of the i-th element of a sequence.
RemoveAt(seq, i) == SubSeq(seq, 1, i - 1) \o SubSeq(seq, i + 1, Len(seq))

\* The strings the component parses, and what it parses each into.  The
\* table is the operator ParseHoursMinutes, evaluated once for each string.
ParsedStrings == FajrTimings \cup BedTimeValues

HoursMinutes == [str \in ParsedStrings |-> ParseHoursMinutes(str)]

-----------------------------------------------------------------------------
(* The calculator, lines 44-60 *)

\* The body of the loop `for (let i = 2; i <= 6; i++)`: cycles.push({...}).
\* duration is the number durationMinutes / 60, kept as the exact fraction
\* num / den.
\* SleepCycle with cycles of 60 minutes.
SleepCycle_HourCycles(bedTimeValue, i) ==
    LET cycleLength == 60
        durationMinutes == i * cycleLength
        wakeTime == bedTimeValue + durationMinutes * 60000
    IN  [cycles   |-> i,
         duration |-> [num |-> durationMinutes, den |-> 60],
         wakeTime |-> wakeTime]

SleepCycle(bedTimeValue, i) ==
    LET cycleLength == 90
        durationMinutes == i * cycleLength
        wakeTime == bedTimeValue + durationMinutes * 60000
    IN  [cycles   |-> i,
         duration |-> [num |-> durationMinutes, den |-> 60],
         wakeTime |-> wakeTime]

RECURSIVE CyclesLoop(_, _, _)
CyclesLoop(bedTimeValue, i, cycles) ==
    IF i <= 6
    THEN CyclesLoop(bedTimeValue, i + 1, Append(cycles, SleepCycle(bedTimeValue, i)))
    ELSE cycles

calculateSleepCycles(bedTimeValue) == CyclesLoop(bedTimeValue, 2, <<>>)

-----------------------------------------------------------------------------
(* The render, lines 192-195, 232-245 and 406-515 *)

\* sleepSchedule.sleepCycles
sleepCycles == calculateSleepCycles(bedTime)

\* getFajrDateTime, with the state and the clock it reads as parameters.
\* getFajrDateTime without the step to the next day.
getFajrDateTime_Today(pt, clock) ==
    IF pt.isNull \/ ~TruthyString(pt.Fajr) THEN NULL
    ELSE LET hm == HoursMinutes[pt.Fajr]
         IN  SetHours(clock, hm.hours, hm.minutes, 0, 0)

getFajrDateTime(pt, clock) ==
    IF pt.isNull \/ ~TruthyString(pt.Fajr) THEN NULL
    ELSE LET hm == HoursMinutes[pt.Fajr]
             tomorrow == SetDateNextDay(clock)
         IN  SetHours(tomorrow, hm.hours, hm.minutes, 0, 0)

fajrTime == getFajrDateTime(prayerTimes, now)

\* {fajrTime && (<div> Tomorrow's Fajr ... </div>)}
showFajrBanner == Truthy(fajrTime)

timeToFajr(cycle) ==
    IF Truthy(fajrTime) THEN Sub(fajrTime, cycle.wakeTime) ELSE 0

minutesToFajr(cycle) == MathFloorDiv(timeToFajr(cycle), MILLISECONDS_IN_MINUTE)

\* isRecommendedForFajr as any wake time at least 20 minutes before Fajr.
isRecommendedForFajr_AtLeast20(cycle) ==
    /\ Truthy(fajrTime)
    /\ Ge(minutesToFajr(cycle), 20)

\* isRecommendedForFajr with <= 30 for < 30.
isRecommendedForFajr_Within30(cycle) ==
    /\ Truthy(fajrTime)
    /\ Ge(minutesToFajr(cycle), 20) /\ Le(minutesToFajr(cycle), 90)
    /\ Le(MathAbs(Sub(minutesToFajr(cycle), 45)), 30)

isRecommendedForFajr(cycle) ==
    /\ Truthy(fajrTime)
    /\ Ge(minutesToFajr(cycle), 20) /\ Le(minutesToFajr(cycle), 90)
    /\ Lt(MathAbs(Sub(minutesToFajr(cycle), 45)), 30)

\* isWarningTime without `timeToFajr > 0`.
isWarningTime_NoLowerBound(cycle) ==
    /\ Truthy(fajrTime)
    /\ Le(timeToFajr(cycle), 20 * MILLISECONDS_IN_MINUTE)

isWarningTime(cycle) ==
    /\ Truthy(fajrTime)
    /\ Gt(timeToFajr(cycle), 0)
    /\ Le(timeToFajr(cycle), 20 * MILLISECONDS_IN_MINUTE)

\* isLateWakeup with > for >=.
isLateWakeup_Strict(cycle) ==
    /\ Truthy(fajrTime)
    /\ Gt(cycle.wakeTime, fajrTime)

\* isLateWakeup without `fajrTime &&`.
isLateWakeup_Unguarded(cycle) == Ge(cycle.wakeTime, fajrTime)

isLateWakeup(cycle) ==
    /\ Truthy(fajrTime)
    /\ Ge(cycle.wakeTime, fajrTime)

\* The band whose colours the card's className takes, lines 463-471.
cardBand(cycle) ==
    IF isRecommendedForFajr(cycle) THEN "Recommended"
    ELSE IF isWarningTime(cycle) THEN "Warning"
    ELSE IF isLateWakeup(cycle) THEN "TooLate"
    ELSE "Neutral"

\* The band whose colours the two text lines take, lines 474-493.
textBand(cycle) ==
    IF isLateWakeup(cycle) THEN "TooLate"
    ELSE IF isWarningTime(cycle) THEN "Warning"
    ELSE IF isRecommendedForFajr(cycle) THEN "Recommended"
    ELSE "Neutral"

\* The badges shown on the card, lines 496-510.
badges(cycle) ==
    (IF isRecommendedForFajr(cycle) THEN {"Recommended"} ELSE {})
    \cup (IF isWarningTime(cycle) THEN {"Warning"} ELSE {})
    \cup (IF isLateWakeup(cycle) THEN {"TooLate"} ELSE {})

-----------------------------------------------------------------------------
(* State after the mount: the initial values of the useState hooks and the  *)
(* first run of the fetchPrayerTimes effect, up to its `await fetch`.       *)

NO_ERROR == "null"

Init ==
    /\ now \in {t \in ClockPoints : DayOf(t) = 0}
    /\ currentTime = now
    /\ bedTime = SetHours(now, 22, 0, 0, 0)
    /\ location = Chicago
    /\ prayerTimes = NULL_PRAYER_TIMES
    /\ loading = TRUE
    /\ error = NO_ERROR
    /\ pending = <<Chicago>>

-----------------------------------------------------------------------------
(* Operations.  The clock advances with the timer's callback, which runs    *)
(* every second; the other handlers run within that second and read the    *)
(* clock as it was at the last callback.                                    *)

\* The setInterval callback, lines 118-124: setCurrentTime(new Date()).
Tick(t) ==
    /\ t > now
    /\ now' = t
    /\ currentTime' = t
    /\ UNCHANGED <<bedTime, location, prayerTimes, loading, error, pending>>

\* handleBedTimeChange, lines 197-212.
handleBedTimeChange(timeValue) ==
    /\ IF TruthyString(timeValue)
       THEN LET hm == HoursMinutes[timeValue]
                newBedTime == now
            IN  bedTime' = SetHours(newBedTime, hm.hours, hm.minutes, 0, 0)
       ELSE UNCHANGED bedTime
    /\ UNCHANGED <<now, currentTime, location, prayerTimes, loading, error, pending>>

\* handleLocationSubmit, lines 214-221, and the effect its setLocation
\* triggers, lines 126-133 and 169-170: fetchPrayerTimes up to `await fetch`.
handleLocationSubmit(loc) ==
    /\ Len(pending) < MaxPending
    /\ location' = loc
    /\ loading' = TRUE
    /\ error' = NO_ERROR
    /\ pending' = Append(pending, loc)
    /\ UNCHANGED <<now, currentTime, bedTime, prayerTimes>>

\* The rest of fetchPrayerTimes for the i-th pending call, when the answer
\* has code 200, status OK and a Fajr timing: lines 134-152 and 164-166.
FetchSucceeds(i, fajr) ==
    /\ i \in 1..Len(pending)
    /\ TruthyString(fajr)
    /\ prayerTimes' = PrayerTimes(fajr, TimezoneOf(pending[i]))
    /\ loading' = FALSE
    /\ pending' = RemoveAt(pending, i)
    /\ UNCHANGED <<now, currentTime, bedTime, location, error>>

\* ... when the answer is OK but holds no Fajr timing: lines 137-143.
FetchWithoutFajr(i) ==
    /\ i \in 1..Len(pending)
    /\ error' = "LOCATION"
    /\ loading' = FALSE
    /\ pending' = RemoveAt(pending, i)
    /\ UNCHANGED <<now, currentTime, bedTime, location, prayerTimes>>

\* ... when the answer is not code 200 / status OK: lines 153-158.
FetchNotOk(i) ==
    /\ i \in 1..Len(pending)
    /\ error' = "API"
    /\ loading' = FALSE
    /\ pending' = RemoveAt(pending, i)
    /\ UNCHANGED <<now, currentTime, bedTime, location, prayerTimes>>

\* ... when fetch or response.json() rejects, or reading the answer throws:
\* lines 159-163.
FetchThrows(i) ==
    /\ i \in 1..Len(pending)
    /\ error' = "GENERAL"
    /\ loading' = FALSE
    /\ pending' = RemoveAt(pending, i)
    /\ UNCHANGED <<now, currentTime, bedTime, location, prayerTimes>>

Next ==
    \/ \E t \in ClockPoints : Tick(t)
    \/ \E v \in BedTimeValues : handleBedTimeChange(v)
    \/ \E loc \in Locations : handleLocationSubmit(loc)
    \/ \E i \in 1..MaxPending, f \in FajrTimings : FetchSucceeds(i, f)
    \/ \E i \in 1..MaxPending : FetchWithoutFajr(i)
    \/ \E i \in 1..MaxPending : FetchNotOk(i)
    \/ \E i \in 1..MaxPending : FetchThrows(i)

Spec == Init /\ [][Next]_vars

-----------------------------------------------------------------------------
(* Vocabulary of the properties *)

Cards == 1..Len(sleepCycles)

\* A Fajr time that is a time: neither null nor an Invalid Date.
FajrIsATime == fajrTime # NULL /\ fajrTime # NaN

\* The card shows none of the three bands, in any of its parts.
IsNeutral(cycle) ==
    /\ ~isRecommendedForFajr(cycle)
    /\ ~isWarningTime(cycle)
    /\ ~isLateWakeup(cycle)
    /\ cardBand(cycle) = "Neutral"
    /\ textBand(cycle) = "Neutral"
    /\ badges(cycle) = {}

\* The card shows the TooLate band in all of its parts, and no other.
IsTooLate(cycle) ==
    /\ isLateWakeup(cycle)
    /\ cardBand(cycle) = "TooLate"
    /\ textBand(cycle) = "TooLate"
    /\ badges(cycle) = {"TooLate"}

AllNeutral == \A k \in Cards : IsNeutral(sleepCycles[k])

\* The hour or the minute part of the string is not a number.
IsMalformed(str) ==
    LET hm == HoursMinutes[str]
    IN  hm.hours = NaN \/ ToNumber(hm.minutes) = NaN

\* One of the three error branches of fetchPrayerTimes is taken.
FetchFails ==
    \E i \in 1..MaxPending : FetchWithoutFajr(i) \/ FetchNotOk(i) \/ FetchThrows(i)

-----------------------------------------------------------------------------
(* C1 *)

\* C1: for every bedtime, calculateSleepCycles returns exactly 5 candidates
\* whose cycle counts are 2,3,4,5,6 in that order, each with
\* wakeTime = bedTime + cycles * 90 minutes and duration = cycles * 1.5 hours
\* (duration = 3 * cycles / 2, stated on the fraction num / den).
C1_FiveCandidates ==
    LET r == calculateSleepCycles(bedTime)
    IN  /\ Len(r) = 5
        /\ \A k \in 1..5 :
              /\ r[k].cycles = k + 1
              /\ r[k].wakeTime = bedTime + (k + 1) * 90 * MILLISECONDS_IN_MINUTE
              /\ 2 * r[k].duration.num = 3 * (k + 1) * r[k].duration.den

\* A bedtime of 23:30 entered on day 1: the candidates run past midnight,
\* the last one waking at 08:30 on day 2.
C1_Witness ==
    /\ bedTime = MsPerDay + 23 * MsPerHour + 30 * MILLISECONDS_IN_MINUTE
    /\ sleepCycles[5].wakeTime = 2 * MsPerDay + 8 * MsPerHour + 30 * MILLISECONDS_IN_MINUTE

-----------------------------------------------------------------------------
(* C2 *)

\* C2: for every candidate and every Fajr time, at most one of the three
\* flags isRecommendedForFajr, isWarningTime and isLateWakeup is true (and
\* so at most one badge is shown).
C2_BandsExclusive ==
    \A k \in Cards : Cardinality(badges(sleepCycles[k])) <= 1

-----------------------------------------------------------------------------
(* C3 *)

\* C3: a candidate that wakes exactly 20 minutes before Fajr is Warning and
\* not Recommended: its Recommended flag is false and its card takes the
\* Warning band.
C3_TwentyIsWarning ==
    \A k \in Cards :
        (FajrIsATime /\ fajrTime - sleepCycles[k].wakeTime = 20 * MILLISECONDS_IN_MINUTE)
            => /\ ~isRecommendedForFajr(sleepCycles[k])
               /\ cardBand(sleepCycles[k]) = "Warning"

-----------------------------------------------------------------------------
(* C4 *)

\* C4: when a Fajr time is present, a candidate is TooLate exactly when
\* wakeTime >= fajrTime; a candidate whose wakeTime equals fajrTime is
\* TooLate and neither Warning nor Recommended.
C4_TooLateIffAtOrAfterFajr ==
    FajrIsATime =>
        \A k \in Cards :
            LET cycle == sleepCycles[k]
            IN  /\ isLateWakeup(cycle) <=> cycle.wakeTime >= fajrTime
                /\ cardBand(cycle) = "TooLate" <=> cycle.wakeTime >= fajrTime
                /\ cycle.wakeTime >= fajrTime => IsTooLate(cycle)
                /\ cycle.wakeTime = fajrTime =>
                      ~isWarningTime(cycle) /\ ~isRecommendedForFajr(cycle)

\* A candidate wakes at the very instant of Fajr and is shown TooLate.
C4_Witness ==
    /\ FajrIsATime
    /\ \E k \in Cards :
          sleepCycles[k].wakeTime = fajrTime /\ IsTooLate(sleepCycles[k])

-----------------------------------------------------------------------------
(* C5 *)

-----------------------------------------------------------------------------
(* C6 *)

\* C6: when no Fajr time is available (prayerTimes is null or has no Fajr),
\* getFajrDateTime yields null and all five candidates are Neutral, for every
\* bedtime: none is Recommended, Warning or TooLate.
C6_NoFajrAllNeutral ==
    (prayerTimes.isNull \/ ~TruthyString(prayerTimes.Fajr)) =>
        /\ fajrTime = NULL
        /\ ~showFajrBanner
        /\ Len(sleepCycles) = 5
        /\ AllNeutral

\* No prayer times after a failed first fetch, with a bedtime of 23:30
\* entered by the user.
C6_Witness ==
    /\ prayerTimes.isNull
    /\ pending = <<>>
    /\ error # NO_ERROR
    /\ TimeOfDay(bedTime) = 23 * MsPerHour + 30 * MILLISECONDS_IN_MINUTE
    /\ AllNeutral

-----------------------------------------------------------------------------
(* C7 *)

\* C7: after any prayer-time fetch that ends in an error (an answer without
\* Fajr, a non-OK answer, or a failure of the network), also one that
\* follows an earlier successful fetch, the Fajr time is absent (there is
\* no time of Fajr: null, or an Invalid Date) and all five candidates are
\* Neutral.
C7_NoStaleFajrAfterError ==
    [][FetchFails => (~FajrIsATime /\ AllNeutral)']_vars

-----------------------------------------------------------------------------
(* C8 *)

\* The wake times of the five cards as times of day, in order.
WakeTimesOfDay == [k \in Cards |-> TimeOfDay(sleepCycles[k].wakeTime)]

\* C8: with the bedtime set to 03:00 through the bedtime input and the
\* provider's Fajr equal to 05:00, the five candidates wake at 06:00, 07:30,
\* 09:00, 10:30 and 12:00, each of them is at or after the resolved Fajr
\* timestamp, and all five are TooLate.
C8_ScenarioB ==
    (/\ TimeOfDay(bedTime) = 3 * MsPerHour
     /\ ~prayerTimes.isNull
     /\ prayerTimes.Fajr = HHMM(5, 0))
    => /\ WakeTimesOfDay = <<6 * MsPerHour,
                             7 * MsPerHour + 30 * MILLISECONDS_IN_MINUTE,
                             9 * MsPerHour,
                             10 * MsPerHour + 30 * MILLISECONDS_IN_MINUTE,
                             12 * MsPerHour>>
       /\ \A k \in Cards : sleepCycles[k].wakeTime >= fajrTime
       /\ \A k \in Cards : IsTooLate(sleepCycles[k])

-----------------------------------------------------------------------------
(* C9 *)

\* C9: whenever a Fajr time is present, the resolved Fajr timestamp lies on
\* the calendar day following the current date, at the provider's HH:MM with
\* zero seconds, whatever the bedtime is and at whatever moment of the day it
\* is computed.  (The provider's HH:MM is read back from the timestamp with
\* the formatter, not with the component's parser.)
C9_FajrIsTomorrow ==
    FajrIsATime =>
        /\ DayOf(fajrTime) = DayOf(now) + 1
        /\ fajrTime % MILLISECONDS_IN_MINUTE = 0
        /\ HHMM(TimeOfDay(fajrTime) \div MsPerHour,
                (TimeOfDay(fajrTime) % MsPerHour) \div MILLISECONDS_IN_MINUTE)
             = prayerTimes.Fajr

\* Fajr 05:00 resolved in the last second of day 1, after the user entered a
\* bedtime of 03:00 that day: it is 05:00 of day 2.
C9_Witness ==
    /\ now = MsPerDay + (MsPerDay - 750)
    /\ bedTime = MsPerDay + 3 * MsPerHour
    /\ fajrTime = 2 * MsPerDay + 5 * MsPerHour

-----------------------------------------------------------------------------
(* C10 *)

\* C10: a malformed Fajr string (one whose hour or minute part is not a
\* number) degrades to Fajr-absent: getFajrDateTime yields null, the Fajr
\* banner is not shown, and all five candidates are Neutral.
C10_MalformedFajrIsAbsent ==
    (~prayerTimes.isNull /\ IsMalformed(prayerTimes.Fajr)) =>
        /\ fajrTime = NULL
        /\ ~showFajrBanner
        /\ AllNeutral

-----------------------------------------------------------------------------
(* C11 *)

\* C11: as the help text of the page says ("Green times give you 20-90
\* minutes before Fajr"), every candidate whose wake time is between 20 and
\* 90 minutes inclusive before Fajr is marked Recommended.
C11_GreenIs20To90 ==
    FajrIsATime =>
        \A k \in Cards :
            LET cycle == sleepCycles[k]
                m == (fajrTime - cycle.wakeTime) \div MILLISECONDS_IN_MINUTE
            IN  (20 <= m /\ m <= 90) =>
                    /\ isRecommendedForFajr(cycle)
                    /\ "Recommended" \in badges(cycle)

-----------------------------------------------------------------------------
(* C12 *)

\* C12: for every bedtime and Fajr time such that the 2-cycle candidate wakes
\* at or after Fajr (fajrTime <= bedTime + 180 minutes), all five candidates
\* are TooLate and no candidate is Recommended or Warning.
C12_TooLateFromTheStart ==
    (FajrIsATime /\ fajrTime <= bedTime + 180 * MILLISECONDS_IN_MINUTE) =>
        /\ Len(sleepCycles) = 5
        /\ \A k \in Cards :
              /\ IsTooLate(sleepCycles[k])
              /\ ~isRecommendedForFajr(sleepCycles[k])
              /\ ~isWarningTime(sleepCycles[k])

\* Bedtime 23:30 and Fajr 02:30 of the next day: the 2-cycle candidate
\* wakes at the instant of Fajr, and all five cards are TooLate.
C12_Witness ==
    /\ FajrIsATime
    /\ fajrTime = bedTime + 180 * MILLISECONDS_IN_MINUTE
    /\ sleepCycles[1].cycles = 2
    /\ sleepCycles[1].wakeTime = fajrTime
    /\ \A k \in Cards : IsTooLate(sleepCycles[k])

-----------------------------------------------------------------------------
(* C13 *)

\* The cards whose Recommended flag is set.
RecommendedCards == {k \in Cards : isRecommendedForFajr(sleepCycles[k])}

\* C13: for every bedtime and every Fajr time, at most one of the five
\* candidates is Recommended: consecutive candidates are 90 minutes apart,
\* and the recommended window is narrower than that.
C13_AtMostOneRecommended ==
    /\ \A k \in Cards \ {1} :
          sleepCycles[k].wakeTime - sleepCycles[k - 1].wakeTime
              = 90 * MILLISECONDS_IN_MINUTE
    /\ Cardinality(RecommendedCards) <= 1

\* Exactly one card is Recommended, at the far end of the window (74 minutes
\* before Fajr), and the next card is already past Fajr.
C13_Witness ==
    /\ FajrIsATime
    /\ \E k \in Cards \ {5} :
          /\ RecommendedCards = {k}
          /\ fajrTime - sleepCycles[k].wakeTime = 74 * MILLISECONDS_IN_MINUTE
          /\ isLateWakeup(sleepCycles[k + 1])

-----------------------------------------------------------------------------
(* C14 *)

\* No fetch is in flight and none has failed since the last submission of
\* the location form (which resets error): every fetch started by or before
\* that submission has been answered, the last one with success.
AllFetchesAnswered == pending = <<>> /\ ~loading /\ error = NO_ERROR

\* C14: if the location is submitted twice and both fetches succeed, then
\* once both responses have been handled, in whichever order they arrive,
\* the stored prayerTimes are those of the most recently submitted location.
\* Stated for London submitted first and Chicago second: the location is
\* Chicago, and prayer times of London's timezone can only come from the
\* earlier submission.
C14_LatestLocationWins ==
    (AllFetchesAnswered /\ FajrIsATime /\ location = Chicago)
        => prayerTimes.timezone = TimezoneOf(location)

-----------------------------------------------------------------------------
(* C15 *)

\* What each card shows: its flags (as badges) and the bands of its class
\* names.
Bands ==
    [k \in Cards |->
        [card   |-> cardBand(sleepCycles[k]),
         text   |-> textBand(sleepCycles[k]),
         badges |-> badges(sleepCycles[k])]]

\* The timer's callback runs one second after the last reading of the clock.
OneSecondTick == \E t \in ClockPoints : t - now = MsPerSecond /\ Tick(t)

\* C15: the 1-second timer update of currentTime, at any moment (also one
\* that crosses midnight), leaves the band of every candidate unchanged;
\* the update leaves bedTime and prayerTimes unchanged.
C15_TickKeepsBands ==
    [][OneSecondTick => Bands' = Bands]_vars

====
